---- MODULE Spec2Model ----
(***************************************************************************)
(* Model of libnetwork/ipams/defaultipam/structures.go: the PoolID string  *)
(* form (PoolIDFromString / PoolID.String), the PoolData capacity and      *)
(* availability queries (subnetCapacity, capacityRange, AvailableAddrs)    *)
(* and the sorted-prefix merge iterator (mergeIter).                       *)
(*                                                                         *)
(* Representation of machine integers.  TLC's integers are 32 bits wide,  *)
(* so a uint64 is modelled as the set of the positions of its one bits     *)
(* (position 0 is the least significant bit, positions 0..63), and a       *)
(* uint128.Uint128 as the record [Lo, Hi] of two such words, exactly the   *)
(* two-word layout of the Go type.  Every width is kept: nothing is scaled *)
(* down.                                                                   *)
(***************************************************************************)
EXTENDS Integers, Sequences, FiniteSets, TLC

VARIABLES
    \* ---- PoolData (structures.go:20-28) and the query being answered ----
    addrs,            \* the backing tracker: [Pool |-> prefix, Unselected |-> uint64]
    children,         \* set of child prefixes
    availableRange,   \* cached Uint128
    autoRelease,      \* BOOLEAN
    ret,              \* what the last query returned
    readers,          \* the locals of each concurrent reader of the PoolData
    \* ---- the pool's entry in its address space (described by the spec) ----
    registered,       \* TRUE while the address space's map holds the PoolData
    selected,         \* number of addresses selected in the backing tracker
    lastOp,           \* the last mutating operation applied to the pool
    \* ---- PoolID parsing and formatting ----
    pid0,             \* the PoolID whose String() is taken
    pID,              \* the PoolID returned by PoolIDFromString
    str,              \* the string handed to PoolIDFromString
    err,              \* error returned by PoolIDFromString
    ppc,              \* position of the parse/format caller
    restr,            \* String() of the PoolID that PoolIDFromString returned
    is6,              \* what the last Is6() call on pid0 returned
    \* ---- mergeIter (structures.go:114-119) and its caller's walk ----
    a, b,             \* the two caller-owned sorted sequences
    ia, ib,           \* cursors (0-based, as in the code)
    cmp,              \* which comparator was supplied
    lastA,            \* the which-side flag
    got,              \* the value returned by the last Get
    out,              \* the elements the walk has emitted so far
    fresh,            \* TRUE when no Get has been made at the current position
    walking,          \* TRUE while the caller has strictly alternated Get and Inc
    nInc,             \* number of Inc calls made
    cmpCalls,         \* comparator calls made by the last newMergeIter or Inc
    iters             \* two iterators built over the same a and b, and their walks

lifeVars  == <<registered, selected, lastOp>>
poolVars  == <<addrs, children, availableRange, autoRelease, ret, readers, lifeVars>>
parseVars == <<pid0, pID, str, err, ppc, restr, is6>>
mergeVars == <<a, b, ia, ib, cmp, lastA, got, out, fresh, walking, nInc, cmpCalls, iters>>
vars      == <<poolVars, parseVars, mergeVars>>

-----------------------------------------------------------------------------
(* Bounds of the model *)

\* largest number of child prefixes of one pool
MaxChildren == 2

\* largest number of '/'-delimited segments of a string handed to the parser
MaxSegs == 6

\* largest length of each of the two sequences handed to the merge iterator
MaxLen == 3

\* number of Inc calls a caller makes beyond the end of the walk
MaxExtraInc == 1

\* longest sequence two iterators share
MaxSharedLen == 2

\* most addresses selected in one pool
MaxSelected == 2

-----------------------------------------------------------------------------
(* uint64 words as sets of bit positions *)

BitPos64 == 0..63

U64Zero == {}

U64One == {0}

\* x << n on a uint64: bits shifted past position 63 are lost; a shift count
\* of 64 or more yields 0 (Go shift semantics).
Shl64(x, n) == {c \in BitPos64 : (c - n) \in x}

\* x >> n on a uint64.
Shr64(x, n) == {c \in BitPos64 : (c + n) \in x}

\* carry into bit position i of x + y + carry (carry look-ahead): the carry-in
\* or a position below i generates a carry and every position between
\* propagates it
CarryInto(x, y, carry, i) ==
    \/ carry = 1 /\ \A k \in 0..(i - 1) : k \in x \cup y
    \/ \E j \in 0..(i - 1) :
          j \in x \cap y /\ \A k \in (j + 1)..(i - 1) : k \in x \cup y

\* math/bits.Add64: sum and carry-out of x + y + carry
Add64(x, y, carry) ==
    [sum   |-> {i \in BitPos64 :
                  ((i \in x) # (i \in y)) # CarryInto(x, y, carry, i)},
     carry |-> IF CarryInto(x, y, carry, 64) THEN 1 ELSE 0]

\* x < y on uint64 words: the highest bit in which they differ belongs to y.
Less64(x, y) ==
    LET d == (x \ y) \cup (y \ x)
    IN  d # {} /\ (CHOOSE m \in d : \A k \in d : k <= m) \in y

-----------------------------------------------------------------------------
(* lukechampine.com/uint128, as used by structures.go *)

\* uint128.New(lo, hi)
New(lo, hi) == [Lo |-> lo, Hi |-> hi]

\* uint128.From64(v)
From64(v) == New(v, U64Zero)

\* the zero value of Uint128 (the named result `capacity` before the loop)
Zero128 == New(U64Zero, U64Zero)

\* Uint128.Lsh(n): two-word left shift
Lsh(u, n) ==
    IF n > 64
    THEN [Lo |-> U64Zero, Hi |-> Shl64(u.Lo, n - 64)]
    ELSE [Lo |-> Shl64(u.Lo, n), Hi |-> Shl64(u.Hi, n) \cup Shr64(u.Lo, 64 - n)]

\* outcome of a call: it returned val, or it panicked and returned nothing
Returned(v) == [panic |-> FALSE, val |-> v]

Panicked == [panic |-> TRUE, val |-> Zero128]

\* Uint128.Add(v): panics when the sum does not fit 128 bits
Add(u, v) ==
    LET l == Add64(u.Lo, v.Lo, 0)
        h == Add64(u.Hi, v.Hi, l.carry)
    IN  IF h.carry # 0 THEN Panicked ELSE Returned([Lo |-> l.sum, Hi |-> h.sum])

\* Uint128.Cmp(v): -1, 0, +1
Cmp(u, v) ==
    IF u = v THEN 0
    ELSE IF Less64(u.Hi, v.Hi) \/ (u.Hi = v.Hi /\ Less64(u.Lo, v.Lo)) THEN -1
    ELSE 1

\* addrset.MaxUint64: the largest uint64
MaxUint64 == BitPos64

-----------------------------------------------------------------------------
(* net/netip addresses and prefixes                                        *)
(* An address is its bit length (32 or 128; 0 for the zero Addr) and the   *)
(* set of positions of its one bits, position 0 being the most significant *)
(* bit.  A prefix is an address and a bit count; the zero Prefix has the   *)
(* zero Addr and Bits() = -1.                                              *)

ZeroAddr == [bitlen |-> 0, ones |-> {}]

V4(ones) == [bitlen |-> 32, ones |-> ones]

V6(ones) == [bitlen |-> 128, ones |-> ones]

PrefixFrom(ip, bits) == [ip |-> ip, bits |-> bits]

\* netip.Prefix{}
ZeroPrefix == PrefixFrom(ZeroAddr, -1)

\* Addr.BitLen()
BitLen(ip) == ip.bitlen

\* Addr.Is6()
AddrIs6(ip) == ip.bitlen = 128

\* Prefix.IsValid()
IsValid(p) == p.ip # ZeroAddr /\ p.bits >= 0 /\ p.bits <= BitLen(p.ip)

\* the addresses of the model
Ip10_0_0_0   == V4({4, 6})
Ip10_0_0_128 == V4({4, 6, 24})
Ip10_0_1_0   == V4({4, 6, 23})
Ip10_0_2_0   == V4({4, 6, 22})
Ip6Zero      == V6({})
Ip6One       == V6({127})
Ip6High      == V6({0})

\* p contains q: same family, q at least as long, and equal on p's bits
Contains(p, q) ==
    /\ BitLen(p.ip) = BitLen(q.ip)
    /\ p.bits <= q.bits
    /\ {i \in p.ip.ones : i < p.bits} = {i \in q.ip.ones : i < p.bits}

Overlaps(p, q) == Contains(p, q) \/ Contains(q, p)

-----------------------------------------------------------------------------
(* Strings.  A Go string is modelled as the sequence of its characters.    *)

Digits == <<"0", "1", "2", "3", "4", "5", "6", "7", "8", "9">>

IsDigit(c) == \E d \in 1..10 : Digits[d] = c

DigitVal(c) == (CHOOSE d \in 1..10 : Digits[d] = c) - 1

\* positions of the separator '/' in s
SlashPos(s) == {i \in 1..Len(s) : s[i] = "/"}

\* strings.Split(s, "/"): the segments between the separators, in order
Split(s) ==
    LET P == SlashPos(s)
        n == Cardinality(P)
        cut(k) == IF k = 0 THEN 0
                  ELSE IF k = n + 1 THEN Len(s) + 1
                  ELSE CHOOSE p \in P : Cardinality({q \in P : q < p}) = k - 1
    IN  [k \in 1..(n + 1) |-> SubSeq(s, cut(k - 1) + 1, cut(k) - 1)]

\* strconv.Itoa for 0..999
Itoa(n) ==
    IF n < 10 THEN <<Digits[n + 1]>>
    ELSE IF n < 100 THEN <<Digits[(n \div 10) + 1], Digits[(n % 10) + 1]>>
    ELSE <<Digits[(n \div 100) + 1], Digits[((n \div 10) % 10) + 1], Digits[(n % 10) + 1]>>

\* the texts of the model's addresses.  canon marks the text Addr.String()
\* produces; the other texts are spellings ParseAddr accepts as well.
AddrTexts ==
    {[ip |-> Ip10_0_0_0,   canon |-> TRUE,  text |-> <<"1", "0", ".", "0", ".", "0", ".", "0">>],
     [ip |-> Ip10_0_0_128, canon |-> TRUE,  text |-> <<"1", "0", ".", "0", ".", "0", ".", "1", "2", "8">>],
     [ip |-> Ip10_0_1_0,   canon |-> TRUE,  text |-> <<"1", "0", ".", "0", ".", "1", ".", "0">>],
     [ip |-> Ip10_0_2_0,   canon |-> TRUE,  text |-> <<"1", "0", ".", "0", ".", "2", ".", "0">>],
     [ip |-> Ip6Zero,      canon |-> TRUE,  text |-> <<":", ":">>],
     [ip |-> Ip6One,       canon |-> TRUE,  text |-> <<":", ":", "1">>],
     [ip |-> Ip6High,      canon |-> TRUE,  text |-> <<"8", "0", "0", "0", ":", ":">>],
     [ip |-> Ip6Zero,      canon |-> FALSE, text |-> <<":", ":", "0">>],
     [ip |-> Ip6One,       canon |-> FALSE, text |-> <<":", ":", "0", "1">>]}

\* Addr.String()
AddrString(ip) == (CHOOSE t \in AddrTexts : t.ip = ip /\ t.canon).text

\* netip.ParseAddr: [ok, ip]; every text outside the table is rejected
ParseAddr(t) ==
    IF \E e \in AddrTexts : e.text = t
    THEN [ok |-> TRUE, ip |-> (CHOOSE e \in AddrTexts : e.text = t).ip]
    ELSE [ok |-> FALSE, ip |-> ZeroAddr]

InvalidPrefixText ==
    <<"i", "n", "v", "a", "l", "i", "d", " ", "P", "r", "e", "f", "i", "x">>

\* Prefix.String()
PrefixString(p) ==
    IF ~IsValid(p) THEN InvalidPrefixText
    ELSE AddrString(p.ip) \o <<"/">> \o Itoa(p.bits)

\* the bit count of netip.ParsePrefix: no sign, no leading zero, decimal
\* digits only (strconv.Atoi); [ok, n].  A text of more than three digits
\* is a number above every legal bit count.
ParseBits(t) ==
    IF Len(t) = 0 THEN [ok |-> FALSE, n |-> 0]
    ELSE IF Len(t) > 1 /\ (~IsDigit(t[1]) \/ t[1] = "0") THEN [ok |-> FALSE, n |-> 0]
    ELSE IF \E i \in 1..Len(t) : ~IsDigit(t[i]) THEN [ok |-> FALSE, n |-> 0]
    ELSE IF Len(t) > 3 THEN [ok |-> TRUE, n |-> 1000]
    ELSE [ok |-> TRUE,
          n  |-> IF Len(t) = 1 THEN DigitVal(t[1])
                 ELSE IF Len(t) = 2 THEN 10 * DigitVal(t[1]) + DigitVal(t[2])
                 ELSE 100 * DigitVal(t[1]) + 10 * DigitVal(t[2]) + DigitVal(t[3])]

\* netip.ParsePrefix: [ok, prefix]; the zero Prefix comes with every error
ParsePrefix(s) ==
    LET P    == SlashPos(s)
        i    == CHOOSE p \in P : \A q \in P : q <= p
        ip   == ParseAddr(SubSeq(s, 1, i - 1))
        bits == ParseBits(SubSeq(s, i + 1, Len(s)))
        bad  == [ok |-> FALSE, prefix |-> ZeroPrefix]
    IN  IF P = {} THEN bad
        ELSE IF ~ip.ok THEN bad
        ELSE IF ~bits.ok THEN bad
        ELSE IF bits.n < 0 \/ bits.n > (IF AddrIs6(ip.ip) THEN 128 ELSE 32) THEN bad
        ELSE [ok |-> TRUE, prefix |-> PrefixFrom(ip.ip, bits.n)]

-----------------------------------------------------------------------------
(* PoolID *)

\* the zero value of PoolID
ZeroPoolID ==
    [AddressSpace |-> <<>>, Subnet |-> ZeroPrefix, ChildSubnet |-> ZeroPrefix]

\* types.InvalidParameterErrorf(...)
InvalidParameter == "InvalidParameter"

\* Is6 answering for the child subnet
Is6OfChildSubnet(k) == AddrIs6(k.ChildSubnet.ip)

\* SubnetKey.Is6
Is6(k) == AddrIs6(k.Subnet.ip)

\* PoolIDFromString with the segment-count test weakened to len(p) < 3
PoolIDFromStringMinSegs(s) ==
    LET p     == Split(s)
        sub   == ParsePrefix(p[2] \o <<"/">> \o p[3])
        pID1  == [ZeroPoolID EXCEPT !.AddressSpace = p[1], !.Subnet = sub.prefix]
        child == ParsePrefix(p[4] \o <<"/">> \o p[5])
        pID2  == [pID1 EXCEPT !.ChildSubnet = child.prefix]
    IN  IF s = <<>> THEN [pID |-> ZeroPoolID, err |-> "InvalidParameter"]
        ELSE IF Len(p) < 3 THEN [pID |-> ZeroPoolID, err |-> "InvalidParameter"]
        ELSE IF ~sub.ok THEN [pID |-> pID1, err |-> "InvalidParameter"]
        ELSE IF Len(p) = 5
             THEN IF ~child.ok THEN [pID |-> pID2, err |-> "InvalidParameter"]
                  ELSE [pID |-> pID2, err |-> "nil"]
        ELSE [pID |-> pID1, err |-> "nil"]

\* PoolIDFromString that stores the address space before it counts the
\* segments
PoolIDFromStringNameFirst(s) ==
    LET p     == Split(s)
        named == [ZeroPoolID EXCEPT !.AddressSpace = p[1]]
        sub   == ParsePrefix(p[2] \o <<"/">> \o p[3])
        pID1  == [named EXCEPT !.Subnet = sub.prefix]
        child == ParsePrefix(p[4] \o <<"/">> \o p[5])
        pID2  == [pID1 EXCEPT !.ChildSubnet = child.prefix]
    IN  IF s = <<>> THEN [pID |-> ZeroPoolID, err |-> "InvalidParameter"]
        ELSE IF Len(p) # 3 /\ Len(p) # 5 THEN [pID |-> named, err |-> "InvalidParameter"]
        ELSE IF ~sub.ok THEN [pID |-> pID1, err |-> "InvalidParameter"]
        ELSE IF Len(p) = 5
             THEN IF ~child.ok THEN [pID |-> pID2, err |-> "InvalidParameter"]
                  ELSE [pID |-> pID2, err |-> "nil"]
        ELSE [pID |-> pID1, err |-> "nil"]

\* PoolIDFromString with the child's parse error dropped
PoolIDFromStringDropsChildErr(s) ==
    LET p     == Split(s)
        sub   == ParsePrefix(p[2] \o <<"/">> \o p[3])
        pID1  == [ZeroPoolID EXCEPT !.AddressSpace = p[1], !.Subnet = sub.prefix]
        child == ParsePrefix(p[4] \o <<"/">> \o p[5])
        pID2  == [pID1 EXCEPT !.ChildSubnet = child.prefix]
    IN  IF s = <<>> THEN [pID |-> ZeroPoolID, err |-> "InvalidParameter"]
        ELSE IF Len(p) # 3 /\ Len(p) # 5 THEN [pID |-> ZeroPoolID, err |-> "InvalidParameter"]
        ELSE IF ~sub.ok THEN [pID |-> pID1, err |-> "InvalidParameter"]
        ELSE IF Len(p) = 5 THEN [pID |-> pID2, err |-> "nil"]
        ELSE [pID |-> pID1, err |-> "nil"]

\* PoolIDFromString: the pair (pID, err) it returns
PoolIDFromString(s) ==
    LET p     == Split(s)
        sub   == ParsePrefix(p[2] \o <<"/">> \o p[3])
        pID1  == [ZeroPoolID EXCEPT !.AddressSpace = p[1], !.Subnet = sub.prefix]
        child == ParsePrefix(p[4] \o <<"/">> \o p[5])
        pID2  == [pID1 EXCEPT !.ChildSubnet = child.prefix]
    IN  IF s = <<>> THEN [pID |-> ZeroPoolID, err |-> InvalidParameter]
        ELSE IF Len(p) # 3 /\ Len(p) # 5 THEN [pID |-> ZeroPoolID, err |-> InvalidParameter]
        ELSE IF ~sub.ok THEN [pID |-> pID1, err |-> InvalidParameter]
        ELSE IF Len(p) = 5
             THEN IF ~child.ok THEN [pID |-> pID2, err |-> InvalidParameter]
                  ELSE [pID |-> pID2, err |-> "nil"]
        ELSE [pID |-> pID1, err |-> "nil"]

\* PoolID.String that always writes the 3-segment form
PoolIDStringDropsChild(s) ==
    s.AddressSpace \o <<"/">> \o PrefixString(s.Subnet)

\* PoolID.String
PoolIDString(s) ==
    IF s.ChildSubnet = ZeroPrefix
    THEN s.AddressSpace \o <<"/">> \o PrefixString(s.Subnet)
    ELSE s.AddressSpace \o <<"/">> \o PrefixString(s.Subnet)
            \o <<"/">> \o PrefixString(s.ChildSubnet)

-----------------------------------------------------------------------------
(* PoolData queries *)

\* AddrSet.Pool()
Pool(as) == as.Pool

\* AddrSet.Unselected()
Unselected(as) == as.Unselected

\* subnetCapacity shifting by the prefix length instead of the host bits
subnetCapacityShiftsByBits(sn) ==
    LET capacity == From64(U64One)
    IN  Lsh(capacity, sn.bits)

subnetCapacity(sn) ==
    LET capacity == From64(U64One)
        hostBits == BitLen(sn.ip) - sn.bits
    IN  Lsh(capacity, hostBits)

\* the loop of capacityRange over the children, visited in the order `ord`
\* (Go's map iteration order is unspecified); a panic in Add ends the call
RECURSIVE capacityLoop(_, _, _)
capacityLoop(ord, i, capacity) ==
    IF i > Len(ord) THEN Returned(capacity)
    ELSE LET next == Add(capacity, subnetCapacity(ord[i]))
         IN  IF next.panic THEN Panicked ELSE capacityLoop(ord, i + 1, next.val)

\* capacityRange without the empty-children branch
capacityRangeAlwaysSums(p, ord) == capacityLoop(ord, 1, Zero128)

capacityRange(p, ord) ==
    IF Cardinality(p.children) = 0
    THEN Returned(subnetCapacity(Pool(p.addrs)))
    ELSE capacityLoop(ord, 1, Zero128)

\* AvailableAddrs reporting the narrowed range in both results
AvailableAddrsSubnetFromRange(p) ==
    LET narrowed == IF Cmp(p.availableRange, New(U64Zero, U64One)) > 0
                    THEN MaxUint64
                    ELSE p.availableRange.Lo
    IN  [availableSubnet |-> narrowed, availableRange |-> narrowed]

AvailableAddrs(p) ==
    [availableSubnet |-> Unselected(p.addrs),
     availableRange  |-> IF Cmp(p.availableRange, New(U64Zero, U64One)) > 0
                         THEN MaxUint64
                         ELSE p.availableRange.Lo]

\* the PoolData the variables hold
ThePool ==
    [addrs |-> addrs, children |-> children,
     availableRange |-> availableRange, autoRelease |-> autoRelease]

\* the orders in which a range over the map `cs` can visit its keys
Orders(cs) ==
    {o \in [1..Cardinality(cs) -> cs] : \A i, j \in DOMAIN o : i # j => o[i] # o[j]}

\* PoolData.String
PoolDataString(p) ==
    <<"P", "o", "o", "l", "D", "a", "t", "a", "[",
      "C", "h", "i", "l", "d", "r", "e", "n", ":", " ">>
        \o Itoa(Cardinality(p.children)) \o <<"]">>

-----------------------------------------------------------------------------
(* The queries step by step, as one of several goroutines reading the same *)
(* PoolData runs them.  l holds the goroutine's locals: pc is its position  *)
(* in the method op, seen the children its range loop has visited, acc the  *)
(* local capacity, sub and rng the two named results of AvailableAddrs, res *)
(* the value returned.  Every step yields the PoolData and the locals after *)
(* it.                                                                      *)

Readers == {"r1", "r2"}

ReaderOps == {"capacityRange", "AvailableAddrs", "String"}

NoRes == [op |-> "none"]

ReaderIdle ==
    [pc |-> "idle", op |-> "none", seen |-> {}, acc |-> Zero128,
     sub |-> U64Zero, rng |-> U64Zero, res |-> NoRes]

NoReaders == [r \in Readers |-> ReaderIdle]

\* capacityRange up to the loop: the len(p.children) == 0 test
capacityRangeEnter(p, l) ==
    IF Cardinality(p.children) = 0
    THEN [p |-> p,
          l |-> [l EXCEPT !.pc = "done",
                          !.res = [op |-> "capacityRange",
                                   out |-> Returned(subnetCapacity(Pool(p.addrs)))]]]
    ELSE [p |-> p, l |-> [l EXCEPT !.pc = "range", !.acc = Zero128]]

\* a loop body that takes the visited child out of p.children
capacityRangeVisitDrains(p, l, child) ==
    LET next == Add(l.acc, subnetCapacity(child))
        q    == [p EXCEPT !.children = @ \ {child}]
    IN  IF next.panic
        THEN [p |-> q, l |-> [l EXCEPT !.pc = "done",
                                       !.res = [op |-> "capacityRange", out |-> Panicked]]]
        ELSE [p |-> q, l |-> [l EXCEPT !.acc = next.val]]

\* one iteration of the loop of capacityRange, on the key `child`
capacityRangeVisit(p, l, child) ==
    LET next == Add(l.acc, subnetCapacity(child))
    IN  IF next.panic
        THEN [p |-> p, l |-> [l EXCEPT !.pc = "done",
                                       !.res = [op |-> "capacityRange", out |-> Panicked]]]
        ELSE [p |-> p, l |-> [l EXCEPT !.seen = @ \cup {child}, !.acc = next.val]]

\* the return after the loop of capacityRange
capacityRangeReturn(p, l) ==
    [p |-> p, l |-> [l EXCEPT !.pc = "done",
                              !.res = [op |-> "capacityRange", out |-> Returned(l.acc)]]]

\* AvailableAddrs statement by statement
AvailableAddrsStep(p, l) ==
    IF l.pc = "entry"
    THEN [p |-> p, l |-> [l EXCEPT !.pc = "narrow", !.sub = Unselected(p.addrs)]]
    ELSE IF l.pc = "narrow"
    THEN [p |-> p,
          l |-> [l EXCEPT !.pc = "reread",
                          !.rng = IF Cmp(p.availableRange, New(U64Zero, U64One)) > 0
                                  THEN MaxUint64
                                  ELSE p.availableRange.Lo]]
    ELSE [p |-> p,
          l |-> [l EXCEPT !.pc = "done", !.sub = Unselected(p.addrs),
                          !.res = [op |-> "AvailableAddrs",
                                   val |-> [availableSubnet |-> Unselected(p.addrs),
                                            availableRange  |-> l.rng]]]]

\* PoolData.String in one step
PoolDataStringStep(p, l) ==
    [p |-> p, l |-> [l EXCEPT !.pc = "done",
                              !.res = [op |-> "String", text |-> PoolDataString(p)]]]

-----------------------------------------------------------------------------
(* Inputs of the pool specification *)

PoolPrefixes ==
    {PrefixFrom(Ip10_0_0_0, 23), PrefixFrom(Ip10_0_0_0, 24),
     PrefixFrom(Ip6Zero, 0), PrefixFrom(Ip6Zero, 64)}

ChildPrefixes ==
    {PrefixFrom(Ip10_0_0_0, 25), PrefixFrom(Ip10_0_1_0, 25),
     PrefixFrom(Ip10_0_0_128, 25), PrefixFrom(Ip10_0_0_0, 32),
     PrefixFrom(Ip6Zero, 0), PrefixFrom(Ip6Zero, 1), PrefixFrom(Ip6High, 1),
     PrefixFrom(Ip6Zero, 65), PrefixFrom(Ip6One, 128)}

\* every prefix handed to subnetCapacity
SubnetInputs ==
    PoolPrefixes \cup ChildPrefixes \cup
    {PrefixFrom(Ip10_0_0_0, 0), PrefixFrom(Ip6One, 64), PrefixFrom(Ip6Zero, 63)}

\* child sets the allocation path can have built for pool `pl`: contained in
\* the pool and pairwise disjoint
ChildSets(pl) ==
    {cs \in SUBSET {c \in ChildPrefixes : Contains(pl, c)} :
        /\ Cardinality(cs) <= MaxChildren
        /\ \A c, d \in cs : c # d => ~Overlaps(c, d)}

\* cached available-range values: 0, 1, 2^63, 2^64-1, 2^64, 2^64+1, 2^70, 2^128-1
AvailValues ==
    {New(U64Zero, U64Zero), New(U64One, U64Zero), New({63}, U64Zero),
     New(BitPos64, U64Zero), New(U64Zero, U64One), New(U64One, U64One),
     New(U64Zero, {6}), New(BitPos64, BitPos64)}

UnselectedValues == {U64Zero, {1, 2, 3, 4, 5, 6, 7}}

NoRet == [op |-> "none"]

IdlePool ==
    /\ addrs = [Pool |-> ZeroPrefix, Unselected |-> U64Zero]
    /\ children = {}
    /\ availableRange = Zero128
    /\ autoRelease = FALSE
    /\ ret = NoRet
    /\ readers = NoReaders
    /\ registered = FALSE /\ selected = 0 /\ lastOp = "none"

NoIs6 == [called |-> FALSE, val |-> FALSE]

IdleParse ==
    /\ pid0 = ZeroPoolID
    /\ pID = ZeroPoolID
    /\ str = <<>>
    /\ err = "none"
    /\ ppc = "idle"
    /\ restr = <<>>
    /\ is6 = NoIs6

Iterators == {"i1", "i2"}

\* an iterator's cursors and its caller's walk: pc is the call the caller
\* makes next, out what its Gets have returned so far
NoIters ==
    [i \in Iterators |->
        [ia |-> 0, ib |-> 0, lastA |-> FALSE, got |-> ZeroPrefix, out |-> <<>>,
         pc |-> "idle"]]

IdleMerge ==
    /\ a = <<>> /\ b = <<>> /\ ia = 0 /\ ib = 0
    /\ cmp = "none" /\ lastA = FALSE /\ got = ZeroPrefix
    /\ out = <<>> /\ fresh = TRUE /\ walking = TRUE /\ nInc = 0
    /\ cmpCalls = 0
    /\ iters = NoIters

InitPool ==
    /\ \E pl \in PoolPrefixes :
         /\ \E u \in UnselectedValues : addrs = [Pool |-> pl, Unselected |-> u]
         /\ children \in ChildSets(pl)
    /\ availableRange \in AvailValues
    /\ autoRelease \in BOOLEAN
    /\ ret = NoRet
    /\ readers = NoReaders
    /\ registered = TRUE /\ selected = 0 /\ lastOp = "none"
    /\ IdleParse
    /\ IdleMerge

\* a caller evaluates subnetCapacity(sn)
CallSubnetCapacity ==
    /\ \E sn \in SubnetInputs :
         ret' = [op |-> "subnetCapacity", arg |-> sn, val |-> subnetCapacity(sn)]
    /\ UNCHANGED <<addrs, children, availableRange, autoRelease, readers>>
    /\ UNCHANGED <<lifeVars, parseVars, mergeVars>>

\* a caller evaluates p.capacityRange()
CallCapacityRange ==
    /\ \E ord \in Orders(children) :
         ret' = [op |-> "capacityRange", out |-> capacityRange(ThePool, ord)]
    /\ UNCHANGED <<addrs, children, availableRange, autoRelease, readers>>
    /\ UNCHANGED <<lifeVars, parseVars, mergeVars>>

\* a caller evaluates p.AvailableAddrs()
CallAvailableAddrs ==
    /\ ret' = [op |-> "AvailableAddrs", val |-> AvailableAddrs(ThePool)]
    /\ UNCHANGED <<addrs, children, availableRange, autoRelease, readers>>
    /\ UNCHANGED <<lifeVars, parseVars, mergeVars>>

NextPool == CallSubnetCapacity \/ CallCapacityRange \/ CallAvailableAddrs

SpecPool == InitPool /\ [][NextPool]_vars

-----------------------------------------------------------------------------
(* Concurrent readers of one PoolData *)

\* the step s of reader r: the PoolData s.p and the locals s.l it leaves
ReaderDid(r, s) ==
    /\ addrs' = s.p.addrs
    /\ children' = s.p.children
    /\ availableRange' = s.p.availableRange
    /\ autoRelease' = s.p.autoRelease
    /\ readers' = [readers EXCEPT ![r] = s.l]
    /\ UNCHANGED <<ret, lifeVars, parseVars, mergeVars>>

\* reader r calls one of the queries
ReaderCall(r) ==
    /\ readers[r].pc \in {"idle", "done"}
    /\ \E op \in ReaderOps :
         readers' = [readers EXCEPT ![r] = [ReaderIdle EXCEPT !.pc = "entry", !.op = op]]
    /\ UNCHANGED <<addrs, children, availableRange, autoRelease, ret>>
    /\ UNCHANGED <<lifeVars, parseVars, mergeVars>>

ReaderCapacityEnter(r) ==
    /\ readers[r].op = "capacityRange" /\ readers[r].pc = "entry"
    /\ ReaderDid(r, capacityRangeEnter(ThePool, readers[r]))

\* the range loop hands out a key it has not produced yet
ReaderCapacityVisit(r) ==
    /\ readers[r].op = "capacityRange" /\ readers[r].pc = "range"
    /\ \E child \in children \ readers[r].seen :
         ReaderDid(r, capacityRangeVisit(ThePool, readers[r], child))

ReaderCapacityReturn(r) ==
    /\ readers[r].op = "capacityRange" /\ readers[r].pc = "range"
    /\ children \ readers[r].seen = {}
    /\ ReaderDid(r, capacityRangeReturn(ThePool, readers[r]))

ReaderAvailableAddrs(r) ==
    /\ readers[r].op = "AvailableAddrs"
    /\ readers[r].pc \in {"entry", "narrow", "reread"}
    /\ ReaderDid(r, AvailableAddrsStep(ThePool, readers[r]))

ReaderString(r) ==
    /\ readers[r].op = "String" /\ readers[r].pc = "entry"
    /\ ReaderDid(r, PoolDataStringStep(ThePool, readers[r]))

NextReaders ==
    \E r \in Readers :
        \/ ReaderCall(r)
        \/ ReaderCapacityEnter(r)
        \/ ReaderCapacityVisit(r)
        \/ ReaderCapacityReturn(r)
        \/ ReaderAvailableAddrs(r)
        \/ ReaderString(r)

SpecReaders == InitPool /\ [][NextReaders]_vars

-----------------------------------------------------------------------------
(* Lifecycle of a pool in its address space.  The mutating allocation path  *)
(* is described by the specification only: a pool holds children or         *)
(* selected addresses, never both, and leaves the address space's map once  *)
(* it holds neither, automatically when autoRelease is set.                 *)

\* the release test that ignores the selected addresses
ShouldReleaseIgnoresSelected(cs, sel, flag) == flag /\ cs = {}

\* the automatic release test applied after a removal
ShouldRelease(cs, sel, flag) == flag /\ cs = {} /\ sel = 0

\* a pool registered explicitly starts empty; a pool created implicitly
\* (autoRelease) starts with the allocation that created it
InitLifecycle ==
    /\ \E pl \in PoolPrefixes :
         /\ addrs = [Pool |-> pl, Unselected |-> U64Zero]
         /\ \/ autoRelease = FALSE /\ children = {} /\ selected = 0
            \/ /\ autoRelease = TRUE /\ selected = 0
               /\ children \in {cs \in ChildSets(pl) : Cardinality(cs) = 1}
            \/ autoRelease = TRUE /\ children = {} /\ selected = 1
    /\ availableRange = Zero128
    /\ ret = NoRet
    /\ readers = NoReaders
    /\ registered = TRUE
    /\ lastOp = "none"
    /\ IdleParse
    /\ IdleMerge

AddChild ==
    /\ registered /\ selected = 0
    /\ \E c \in ChildPrefixes :
         /\ children \cup {c} \in ChildSets(Pool(addrs))
         /\ c \notin children
         /\ children' = children \cup {c}
    /\ lastOp' = "AddChild"
    /\ UNCHANGED <<addrs, availableRange, autoRelease, ret, readers, registered, selected>>
    /\ UNCHANGED <<parseVars, mergeVars>>

RemoveChild ==
    /\ registered
    /\ \E c \in children : children' = children \ {c}
    /\ registered' = ~ShouldRelease(children', selected, autoRelease)
    /\ lastOp' = "RemoveChild"
    /\ UNCHANGED <<addrs, availableRange, autoRelease, ret, readers, selected>>
    /\ UNCHANGED <<parseVars, mergeVars>>

SelectAddr ==
    /\ registered /\ children = {} /\ selected < MaxSelected
    /\ selected' = selected + 1
    /\ lastOp' = "SelectAddr"
    /\ UNCHANGED <<addrs, children, availableRange, autoRelease, ret, readers, registered>>
    /\ UNCHANGED <<parseVars, mergeVars>>

DeselectAddr ==
    /\ registered /\ selected > 0
    /\ selected' = selected - 1
    /\ registered' = ~ShouldRelease(children, selected', autoRelease)
    /\ lastOp' = "DeselectAddr"
    /\ UNCHANGED <<addrs, children, availableRange, autoRelease, ret, readers>>
    /\ UNCHANGED <<parseVars, mergeVars>>

\* the explicit release of an empty pool
ReleasePool ==
    /\ registered /\ children = {} /\ selected = 0
    /\ registered' = FALSE
    /\ lastOp' = "ReleasePool"
    /\ UNCHANGED <<addrs, children, availableRange, autoRelease, ret, readers, selected>>
    /\ UNCHANGED <<parseVars, mergeVars>>

NextLifecycle == AddChild \/ RemoveChild \/ SelectAddr \/ DeselectAddr \/ ReleasePool

SpecLifecycle == InitLifecycle /\ [][NextLifecycle]_vars

-----------------------------------------------------------------------------
(* Inputs and actions of the PoolID specification *)

AddressSpaceNames == {<<>>, <<"a">>, <<"a", "/", "b">>}

SubnetValues ==
    {ZeroPrefix, PrefixFrom(Ip10_0_0_0, 23), PrefixFrom(Ip10_0_1_0, 23),
     PrefixFrom(Ip6Zero, 0), PrefixFrom(Ip6One, 128), PrefixFrom(Ip6High, 1)}

ChildSubnetValues ==
    {ZeroPrefix, PrefixFrom(Ip10_0_0_0, 25), PrefixFrom(Ip10_0_0_128, 25),
     PrefixFrom(Ip6Zero, 64), PrefixFrom(Ip6One, 128)}

\* the PoolIDs a caller formats
PoolIDInputs ==
    {[AddressSpace |-> n, Subnet |-> sn, ChildSubnet |-> c] :
        n \in AddressSpaceNames, sn \in SubnetValues, c \in ChildSubnetValues}

FirstSegs == {<<>>, <<"a">>}

RestSegs ==
    {<<>>, <<"1", "0", ".", "0", ".", "0", ".", "0">>, <<":", ":", "0", "1">>,
     <<"8">>, <<"4", "0">>, <<"0", "8">>}

RECURSIVE Join(_)
Join(segs) ==
    IF Len(segs) = 0 THEN <<>>
    ELSE IF Len(segs) = 1 THEN segs[1]
    ELSE segs[1] \o <<"/">> \o Join(Tail(segs))

\* the strings of k segments a caller hands to the parser (the empty string
\* is the string of one empty segment)
RawInputs(k) ==
    {Join(<<n>> \o g) : n \in FirstSegs, g \in [1..(k - 1) -> RestSegs]}

InitParse ==
    /\ \/ ppc = "have_pid" /\ pid0 \in PoolIDInputs /\ str = <<>>
       \/ /\ ppc = "have_str" /\ pid0 = ZeroPoolID
          /\ \E k \in 1..MaxSegs : str \in RawInputs(k)
    /\ pID = ZeroPoolID
    /\ err = "none"
    /\ restr = <<>>
    /\ is6 = NoIs6
    /\ IdlePool
    /\ IdleMerge

\* the caller takes pid0.String()
CallString ==
    /\ ppc = "have_pid"
    /\ str' = PoolIDString(pid0)
    /\ ppc' = "have_str"
    /\ UNCHANGED <<pid0, pID, err, restr, is6, poolVars, mergeVars>>

\* the caller hands str to PoolIDFromString
CallPoolIDFromString ==
    /\ ppc = "have_str"
    /\ LET r == PoolIDFromString(str)
       IN  pID' = r.pID /\ err' = r.err
    /\ ppc' = "parsed"
    /\ UNCHANGED <<pid0, str, restr, is6, poolVars, mergeVars>>

\* the caller takes String() of the PoolID an accepted string parsed to
CallStringOfParsed ==
    /\ ppc = "parsed" /\ err = "nil"
    /\ restr' = PoolIDString(pID)
    /\ ppc' = "reformatted"
    /\ UNCHANGED <<pid0, pID, str, err, is6, poolVars, mergeVars>>

\* the caller asks pid0.Is6()
CallIs6 ==
    /\ ppc = "have_pid" /\ ~is6.called
    /\ is6' = [called |-> TRUE, val |-> Is6(pid0)]
    /\ UNCHANGED <<pid0, pID, str, err, ppc, restr, poolVars, mergeVars>>

NextParse == CallString \/ CallPoolIDFromString \/ CallStringOfParsed \/ CallIs6

SpecParse == InitParse /\ [][NextParse]_vars

-----------------------------------------------------------------------------
(* mergeIter *)

\* Addr.Compare: by bit length, then by value (the most significant bit in
\* which the addresses differ decides)
CompareAddr(x, y) ==
    LET d == (x.ones \ y.ones) \cup (y.ones \ x.ones)
    IN  IF x.bitlen < y.bitlen THEN -1
        ELSE IF x.bitlen > y.bitlen THEN 1
        ELSE IF d = {} THEN 0
        ELSE IF (CHOOSE m \in d : \A k \in d : m <= k) \in y.ones THEN -1
        ELSE 1

\* the comparator handed to newMergeIter.  "addrBits" orders by base address,
\* then by prefix length; "addr" orders by base address alone, so that it
\* reports distinct prefixes of one base address as equal.
Compare(kind, p, q) ==
    LET c == CompareAddr(p.ip, q.ip)
    IN  IF c # 0 THEN c
        ELSE IF kind = "addr" THEN 0
        ELSE IF p.bits < q.bits THEN -1
        ELSE IF p.bits > q.bits THEN 1
        ELSE 0

\* nextA with the comparison reversed (>= 0)
nextAReversed(it) ==
    IF it.ia < Len(it.a) /\ it.ib < Len(it.b)
          /\ Compare(it.cmp, it.a[it.ia + 1], it.b[it.ib + 1]) >= 0
    THEN TRUE
    ELSE IF it.ia < Len(it.a) /\ it.ib >= Len(it.b) THEN TRUE
    ELSE FALSE

\* nextA with a strict comparison (< 0): B wins ties
nextAStrict(it) ==
    IF it.ia < Len(it.a) /\ it.ib < Len(it.b)
          /\ Compare(it.cmp, it.a[it.ia + 1], it.b[it.ib + 1]) < 0
    THEN TRUE
    ELSE IF it.ia < Len(it.a) /\ it.ib >= Len(it.b) THEN TRUE
    ELSE FALSE

\* nextA without its second test (A has elements left and B has none)
nextAForgetsBExhausted(it) ==
    IF it.ia < Len(it.a) /\ it.ib < Len(it.b)
          /\ Compare(it.cmp, it.a[it.ia + 1], it.b[it.ib + 1]) <= 0
    THEN TRUE
    ELSE FALSE

\* mergeIter.nextA; the cursors are 0-based as in the code, sequences 1-based
nextA(it) ==
    IF it.ia < Len(it.a) /\ it.ib < Len(it.b)
          /\ Compare(it.cmp, it.a[it.ia + 1], it.b[it.ib + 1]) <= 0
    THEN TRUE
    ELSE IF it.ia < Len(it.a) /\ it.ib >= Len(it.b) THEN TRUE
    ELSE FALSE

\* the comparator calls one evaluation of nextA makes: the && chain reaches
\* the call only when both cursors are inside their sequences, and the
\* second condition makes none
nextACmpCalls(it) ==
    IF it.ia < Len(it.a) /\ it.ib < Len(it.b) THEN 1 ELSE 0

newMergeIter(sa, sb, c) ==
    LET iter == [a |-> sa, b |-> sb, cmp |-> c, ia |-> 0, ib |-> 0, lastA |-> FALSE]
    IN  [iter EXCEPT !.lastA = nextA(iter)]

\* the comparator calls newMergeIter makes: those of its one nextA
newMergeIterCmpCalls(sa, sb, c) ==
    nextACmpCalls([a |-> sa, b |-> sb, cmp |-> c, ia |-> 0, ib |-> 0, lastA |-> FALSE])

\* Get that reports exhaustion as soon as either cursor is at its end
GetEitherExhausted(it) ==
    IF it.ia >= Len(it.a) \/ it.ib >= Len(it.b) THEN ZeroPrefix
    ELSE IF it.lastA THEN it.a[it.ia + 1]
    ELSE it.b[it.ib + 1]

\* mergeIter.Get
Get(it) ==
    IF it.ia + it.ib >= Len(it.a) + Len(it.b) THEN ZeroPrefix
    ELSE IF it.lastA THEN it.a[it.ia + 1]
    ELSE it.b[it.ib + 1]

\* Inc that, on a tie, steps over B's equal element together with A's
IncSkipsTie(it) ==
    LET tie   == /\ it.lastA /\ it.ib < Len(it.b)
                 /\ Compare(it.cmp, it.a[it.ia + 1], it.b[it.ib + 1]) = 0
        moved == IF tie THEN [it EXCEPT !.ia = @ + 1, !.ib = @ + 1]
                 ELSE IF it.lastA THEN [it EXCEPT !.ia = @ + 1]
                 ELSE [it EXCEPT !.ib = @ + 1]
    IN  [moved EXCEPT !.lastA = nextA(moved)]

\* Inc that consumes the head of A (it.a = it.a[1:]) instead of moving ia
IncReslicesA(it) ==
    LET moved == IF it.lastA THEN [it EXCEPT !.a = Tail(@)]
                 ELSE [it EXCEPT !.ib = @ + 1]
    IN  [moved EXCEPT !.lastA = nextA(moved)]

\* mergeIter.Inc: the iterator after the call
Inc(it) ==
    LET moved == IF it.lastA THEN [it EXCEPT !.ia = @ + 1]
                 ELSE [it EXCEPT !.ib = @ + 1]
    IN  [moved EXCEPT !.lastA = nextA(moved)]

\* the comparator calls one Inc makes: those of its one nextA, evaluated
\* on the moved cursors
IncCmpCalls(it) ==
    LET moved == IF it.lastA THEN [it EXCEPT !.ia = @ + 1]
                 ELSE [it EXCEPT !.ib = @ + 1]
    IN  nextACmpCalls(moved)

\* the iterator the variables hold
TheIter == [a |-> a, b |-> b, cmp |-> cmp, ia |-> ia, ib |-> ib, lastA |-> lastA]

-----------------------------------------------------------------------------
(* Inputs and actions of the merge specification *)

MergePrefixes ==
    {PrefixFrom(Ip10_0_0_0, 24), PrefixFrom(Ip10_0_0_0, 25),
     PrefixFrom(Ip10_0_1_0, 24), PrefixFrom(Ip10_0_2_0, 24)}

Comparators == {"addrBits", "addr"}

\* s is ascending under comparator c
Ascending(c, s) ==
    \A i, j \in 1..Len(s) : i < j => Compare(c, s[i], s[j]) <= 0

SortedSeqs(c) ==
    UNION {{s \in [1..n -> MergePrefixes] : Ascending(c, s)} : n \in 0..MaxLen}

\* the state after newMergeIter(a, b, cmp)
InitMerge ==
    /\ cmp \in Comparators
    /\ a \in SortedSeqs(cmp)
    /\ b \in SortedSeqs(cmp)
    /\ ia = newMergeIter(a, b, cmp).ia
    /\ ib = newMergeIter(a, b, cmp).ib
    /\ lastA = newMergeIter(a, b, cmp).lastA
    /\ got = ZeroPrefix
    /\ out = <<>>
    /\ fresh = TRUE
    /\ walking = TRUE
    /\ nInc = 0
    /\ cmpCalls = newMergeIterCmpCalls(a, b, cmp)
    /\ iters = NoIters
    /\ IdlePool
    /\ IdleParse

\* the caller calls Get.  out records what a walk emits: the first Get at
\* each position, with the side and index it was read from.  It is kept
\* only while the caller walks (alternates Get and Inc).
CallGet ==
    /\ got' = Get(TheIter)
    /\ out' = IF walking /\ fresh /\ got' # ZeroPrefix
              THEN Append(out, [elem |-> got', fromA |-> lastA,
                                idx |-> IF lastA THEN ia + 1 ELSE ib + 1])
              ELSE out
    /\ fresh' = FALSE
    /\ UNCHANGED <<a, b, ia, ib, cmp, lastA, walking, nInc, cmpCalls, iters>>
    /\ UNCHANGED <<poolVars, parseVars>>

\* the caller calls Inc
CallInc ==
    /\ nInc < Len(a) + Len(b) + MaxExtraInc
    /\ LET it == Inc(TheIter)
       IN  /\ ia' = it.ia /\ ib' = it.ib /\ lastA' = it.lastA
           /\ a' = it.a /\ b' = it.b /\ cmp' = it.cmp
    /\ fresh' = TRUE
    /\ walking' = (walking /\ ~fresh /\ got # ZeroPrefix)
    /\ out' = IF walking' THEN out ELSE <<>>
    /\ nInc' = nInc + 1
    /\ cmpCalls' = IncCmpCalls(TheIter)
    /\ UNCHANGED <<got, iters>>
    /\ UNCHANGED <<poolVars, parseVars>>

NextMerge == CallGet \/ CallInc

SpecMerge == InitMerge /\ [][NextMerge]_vars

-----------------------------------------------------------------------------
(* Two iterators over the same sequences *)

SharedSeqs(c) == {s \in SortedSeqs(c) : Len(s) <= MaxSharedLen}

\* iterator i: its own cursors over the shared a and b
IterOf(i) ==
    [a |-> a, b |-> b, cmp |-> cmp,
     ia |-> iters[i].ia, ib |-> iters[i].ib, lastA |-> iters[i].lastA]

\* the state after two calls of newMergeIter(a, b, cmp)
InitTwoIters ==
    /\ cmp \in Comparators
    /\ a \in SharedSeqs(cmp)
    /\ b \in SharedSeqs(cmp)
    /\ iters = [i \in Iterators |->
                  [ia |-> newMergeIter(a, b, cmp).ia, ib |-> newMergeIter(a, b, cmp).ib,
                   lastA |-> newMergeIter(a, b, cmp).lastA,
                   got |-> ZeroPrefix, out |-> <<>>, pc |-> "get"]]
    /\ ia = 0 /\ ib = 0 /\ lastA = FALSE /\ got = ZeroPrefix
    /\ out = <<>> /\ fresh = TRUE /\ walking = TRUE /\ nInc = 0
    /\ cmpCalls = 0
    /\ IdlePool
    /\ IdleParse

\* the caller of iterator i calls Get; the zero-value prefix ends its walk
IterGet(i) ==
    /\ iters[i].pc = "get"
    /\ LET g == Get(IterOf(i))
       IN  iters' = [iters EXCEPT ![i].got = g,
                                  ![i].out = IF g = ZeroPrefix THEN @ ELSE Append(@, g),
                                  ![i].pc  = IF g = ZeroPrefix THEN "done" ELSE "inc"]
    /\ UNCHANGED <<a, b, ia, ib, cmp, lastA, got, out, fresh, walking, nInc, cmpCalls>>
    /\ UNCHANGED <<poolVars, parseVars>>

\* the caller of iterator i calls Inc
IterInc(i) ==
    /\ iters[i].pc = "inc"
    /\ LET it == Inc(IterOf(i))
       IN  /\ a' = it.a /\ b' = it.b /\ cmp' = it.cmp
           /\ iters' = [iters EXCEPT ![i].ia = it.ia, ![i].ib = it.ib,
                                      ![i].lastA = it.lastA, ![i].pc = "get"]
    /\ UNCHANGED <<ia, ib, lastA, got, out, fresh, walking, nInc, cmpCalls>>
    /\ UNCHANGED <<poolVars, parseVars>>

NextTwoIters == \E i \in Iterators : IterGet(i) \/ IterInc(i)

SpecTwoIters == InitTwoIters /\ [][NextTwoIters]_vars

-----------------------------------------------------------------------------
(* Properties of the merge iterator *)

\* the caller walked Get/Inc from the fresh iterator until Get returned the
\* zero-value prefix
WalkDone == walking /\ ~fresh /\ got = ZeroPrefix

\* the elements a walk has emitted
Emitted == [i \in 1..Len(out) |-> out[i].elem]

\* the comparator reports some element of A equal to some element of B
HasTie ==
    \E i \in 1..Len(a), j \in 1..Len(b) : Compare(cmp, a[i], b[j]) = 0

MergeOrderA == <<PrefixFrom(Ip10_0_0_0, 24), PrefixFrom(Ip10_0_2_0, 24)>>

MergeOrderB == <<PrefixFrom(Ip10_0_1_0, 24)>>

\* C4: a walk emits an ascending sequence; for A = [10.0.0.0/24, 10.0.2.0/24],
\* B = [10.0.1.0/24] the full walk emits exactly
\* [10.0.0.0/24, 10.0.1.0/24, 10.0.2.0/24].
C4_MergeOrder ==
    walking =>
        /\ Ascending(cmp, Emitted)
        /\ (WalkDone /\ a = MergeOrderA /\ b = MergeOrderB)
              => Emitted = <<PrefixFrom(Ip10_0_0_0, 24), PrefixFrom(Ip10_0_1_0, 24),
                             PrefixFrom(Ip10_0_2_0, 24)>>

C4_Witness ==
    /\ WalkDone /\ a = MergeOrderA /\ b = MergeOrderB /\ cmp = "addrBits"
    /\ Len(out) = 3

\* C5 as stated: when A and B hold an element the comparator reports as
\* equal, a full walk emits it once and skips B's copy, so fewer than
\* |A|+|B| elements are emitted.
C5_TieSkipsB ==
    (WalkDone /\ HasTie) => Len(out) < Len(a) + Len(b)

\* C5 amended: when A and B hold an element the comparator reports as equal,
\* a full walk emits both copies, A's before B's; the walk always emits
\* exactly |A|+|B| elements, ties or not.
C5_TieEmitsBoth ==
    WalkDone =>
        /\ Len(out) = Len(a) + Len(b)
        /\ \A i \in 1..Len(a), j \in 1..Len(b) :
              Compare(cmp, a[i], b[j]) = 0 =>
                 \E m, n \in 1..Len(out) :
                    /\ m < n
                    /\ out[m] = [elem |-> a[i], fromA |-> TRUE, idx |-> i]
                    /\ out[n] = [elem |-> b[j], fromA |-> FALSE, idx |-> j]

C5_Witness ==
    /\ WalkDone /\ cmp = "addr"
    /\ \E i \in 1..Len(a), j \in 1..Len(b) :
          Compare(cmp, a[i], b[j]) = 0 /\ a[i] # b[j]
    /\ Len(out) = Len(a) + Len(b)

\* both cursors are in range and A's next element is not greater than B's
ANotGreater ==
    /\ ia < Len(a) /\ ib < Len(b)
    /\ Compare(cmp, a[ia + 1], b[ib + 1]) <= 0

\* C6: whenever both cursors are in range and the comparator reports A's next
\* element as not greater than B's (equality included), Get returns A's
\* element and the following Inc advances A's cursor and leaves B's alone.
C6_TieBreak ==
    [][ANotGreater =>
          /\ (nInc' = nInc => got' = a[ia + 1])
          /\ (nInc' = nInc + 1 => (ia' = ia + 1 /\ ib' = ib))]_vars

C6_Witness ==
    /\ nInc > 0 /\ ~fresh
    /\ ia < Len(a) /\ ib < Len(b)
    /\ Compare(cmp, a[ia + 1], b[ib + 1]) = 0
    /\ a[ia + 1] # b[ib + 1]
    /\ got = a[ia + 1]

\* C7: Get returns the zero-value prefix exactly when both cursors have
\* passed the end of their sequences (ia + ib >= |A| + |B|); while a
\* sequence still has an unconsumed element Get returns a non-zero prefix.
C7_Exhaustion ==
    ~fresh =>
        /\ (got = ZeroPrefix) <=> (ia >= Len(a) /\ ib >= Len(b))
        /\ (got = ZeroPrefix) <=> (ia + ib >= Len(a) + Len(b))
        /\ (ia < Len(a) \/ ib < Len(b)) => got # ZeroPrefix

C7_Witness ==
    /\ ~fresh /\ got = ZeroPrefix
    /\ Len(a) = 0 /\ Len(b) > 0 /\ ib = Len(b)

\* C17: from a fresh iterator every Inc moves exactly one cursor by one, so
\* Get returns the zero-value prefix after exactly |A|+|B| calls to Inc and
\* not after fewer; each Inc makes at most one comparator call.
C17_WalkBounded ==
    /\ ia + ib = nInc
    /\ ~fresh => ((got = ZeroPrefix) <=> (nInc >= Len(a) + Len(b)))
    /\ cmpCalls <= 1

C17_Witness ==
    /\ ~fresh /\ got = ZeroPrefix
    /\ Len(a) >= 2 /\ Len(b) >= 1 /\ HasTie
    /\ nInc = Len(a) + Len(b)

\* C18: no step of the iterator changes the sequences a and b (or the
\* comparator); a Get changes no cursor state and returns what the previous
\* Get at this position returned; an Inc changes ia, ib and lastA only.
C18_IteratorFrame ==
    [][/\ a' = a /\ b' = b /\ cmp' = cmp
       /\ nInc' = nInc =>
             /\ ia' = ia /\ ib' = ib /\ lastA' = lastA
             /\ ~fresh => got' = got]_vars

C18_Witness ==
    /\ ~fresh /\ nInc >= 2 /\ ia >= 1 /\ ib >= 1
    /\ ia < Len(a)
    /\ got # ZeroPrefix
    /\ got = (IF lastA THEN a[ia + 1] ELSE b[ib + 1])

\* C23: every Inc advances exactly one cursor by exactly one; it advances
\* B's cursor only when A is exhausted or B's next element is strictly less
\* than A's next element under the comparator.
C23_CursorDiscipline ==
    [][nInc' = nInc + 1 =>
          /\ \/ ia' = ia + 1 /\ ib' = ib
             \/ ia' = ia /\ ib' = ib + 1
          /\ ib' = ib + 1 =>
                \/ ia >= Len(a)
                \/ ib < Len(b) /\ Compare(cmp, b[ib + 1], a[ia + 1]) < 0]_vars

C23_Witness ==
    /\ ia = 0 /\ ib >= 1 /\ Len(a) >= 1
    /\ ib < Len(b)
    /\ Compare(cmp, a[1], b[ib + 1]) = 0

\* the number of positions of s that hold p
Count(s, p) == Cardinality({i \in 1..Len(s) : s[i] = p})

\* C24: a full walk emits every position of A and every position of B
\* exactly once, so the emitted multiset is the multiset union of A and B,
\* ties or not.
C24_EmitsMultisetUnion ==
    WalkDone =>
        /\ \A p \in MergePrefixes : Count(Emitted, p) = Count(a, p) + Count(b, p)
        /\ \A i \in 1..Len(a) :
              Cardinality({m \in 1..Len(out) : out[m].fromA /\ out[m].idx = i}) = 1
        /\ \A j \in 1..Len(b) :
              Cardinality({m \in 1..Len(out) : ~out[m].fromA /\ out[m].idx = j}) = 1

C24_Witness ==
    /\ WalkDone
    /\ \E i \in 1..Len(a), j \in 1..Len(b) : a[i] = b[j] /\ Count(Emitted, a[i]) >= 3

\* both sequences are used up
Exhausted == ia + ib >= Len(a) + Len(b)

\* C25: in every state that Get and Inc calls reach, Inc calls after
\* exhaustion included, the element Get indexes and the elements the
\* comparator was called on are in range; once the iterator is exhausted
\* it stays exhausted and every Get returns the zero-value prefix.
C25_IndexSafety ==
    /\ [](/\ ~Exhausted => (IF lastA THEN ia < Len(a) ELSE ib < Len(b))
          /\ cmpCalls = 1 => (ia < Len(a) /\ ib < Len(b)))
    /\ [][Exhausted =>
            /\ ia' + ib' >= Len(a') + Len(b')
            /\ nInc' = nInc => got' = ZeroPrefix]_vars

C25_Witness ==
    /\ ~fresh /\ got = ZeroPrefix
    /\ nInc > Len(a) + Len(b)
    /\ Len(a) >= 1 /\ ib > Len(b)

\* C27: the emitted sequence keeps the elements of A in their order and the
\* elements of B in theirs, and no element of B is emitted before an
\* element of A that the comparator reports as equal to it.
C27_Stable ==
    walking =>
        /\ \A m, n \in 1..Len(out) :
              /\ (m < n /\ out[m].fromA = out[n].fromA) => out[m].idx < out[n].idx
              /\ (m < n /\ ~out[m].fromA /\ out[n].fromA)
                    => Compare(cmp, out[n].elem, out[m].elem) # 0
        /\ WalkDone =>
              \A i \in 1..Len(a), j \in 1..Len(b) :
                 Compare(cmp, a[i], b[j]) = 0 =>
                    \A m, n \in 1..Len(out) :
                       (/\ out[m].fromA /\ out[m].idx = i
                        /\ ~out[n].fromA /\ out[n].idx = j) => m < n

C27_Witness ==
    /\ WalkDone /\ cmp = "addr"
    /\ Len(a) >= 2 /\ Len(b) >= 1
    /\ a[1] # a[2]
    /\ Compare(cmp, a[1], b[1]) = 0 /\ Compare(cmp, a[2], b[1]) = 0
    /\ Len(out) >= 3
    /\ out[1].fromA /\ out[2].fromA /\ ~out[3].fromA

\* what a Get/Inc walk of the iterator `it` emits when nothing else runs
RECURSIVE MergedAlone(_)
MergedAlone(it) ==
    IF Get(it) = ZeroPrefix THEN <<>>
    ELSE <<Get(it)>> \o MergedAlone(Inc(it))

\* C30: under every interleaving of the Get and Inc calls of two iterators
\* built over the same a and b, a finished walk has emitted the full merged
\* sequence the iterator emits when run alone, and an unfinished one a
\* prefix of it.
C30_IteratorsDoNotInterfere ==
    \A i \in Iterators :
        LET alone == MergedAlone(newMergeIter(a, b, cmp))
            mine  == iters[i].out
        IN  iters[i].pc # "idle" =>
              /\ Len(mine) <= Len(alone)
              /\ mine = SubSeq(alone, 1, Len(mine))
              /\ iters[i].pc = "done" =>
                    (mine = alone /\ Len(mine) = Len(a) + Len(b))

C30_Witness ==
    /\ iters["i1"].pc = "done" /\ Len(iters["i1"].out) >= 3
    /\ iters["i2"].pc = "inc"
    /\ Len(iters["i2"].out) = 2
    /\ \E i \in 1..Len(a), j \in 1..Len(b) : Compare(cmp, a[i], b[j]) = 0

-----------------------------------------------------------------------------
(* Properties of the PoolID string form *)

\* number of '/'-delimited segments of s
NumSegments(s) == Cardinality(SlashPos(s)) + 1

\* the k-th '/'-delimited segment of s
Segment(s, k) == Split(s)[k]

\* a valid PoolID: a valid Subnet and a ChildSubnet that is absent or valid
ValidPoolID(p) ==
    IsValid(p.Subnet) /\ (p.ChildSubnet = ZeroPrefix \/ IsValid(p.ChildSubnet))

\* the PoolID pid0 was formatted and the result parsed
RoundTripDone == ppc = "parsed" /\ pid0 # ZeroPoolID

\* C1 as stated: for every valid PoolID p, whatever its address-space name,
\* PoolIDFromString(p.String()) succeeds and returns p.
C1_RoundTripAnyName ==
    (RoundTripDone /\ ValidPoolID(pid0)) => (err = "nil" /\ pID = pid0)

\* C1 amended: for every valid PoolID p whose address-space name contains
\* no '/', PoolIDFromString(p.String()) succeeds and returns p.
C1_RoundTrip ==
    (RoundTripDone /\ ValidPoolID(pid0) /\ SlashPos(pid0.AddressSpace) = {})
        => (err = "nil" /\ pID = pid0)

C1_Witness ==
    /\ RoundTripDone /\ ValidPoolID(pid0)
    /\ SlashPos(pid0.AddressSpace) = {}
    /\ pid0.ChildSubnet # ZeroPrefix
    /\ NumSegments(str) = 5
    /\ err = "nil" /\ pID = pid0

\* C8: PoolIDFromString fails with InvalidParameter for the empty string and
\* for every input whose number of '/'-delimited segments is neither 3 nor 5.
C8_RejectsSegmentCount ==
    (ppc = "parsed" /\ (str = <<>> \/ NumSegments(str) \notin {3, 5}))
        => err = InvalidParameter

C8_Witness ==
    /\ ppc = "parsed" /\ NumSegments(str) = 4 /\ err = InvalidParameter
    /\ ParsePrefix(Segment(str, 2) \o <<"/">> \o Segment(str, 3)).ok

\* C9: on a 3- or 5-segment input, PoolIDFromString returns InvalidParameter
\* whenever segments 2+3, or for 5 segments segments 4+5, do not parse as a
\* CIDR; a nil error always comes with parsed prefixes, never with a default.
C9_RejectsBadCIDR ==
    (ppc = "parsed" /\ str # <<>> /\ NumSegments(str) \in {3, 5})
        => LET subOK   == ParsePrefix(Segment(str, 2) \o <<"/">> \o Segment(str, 3)).ok
               childOK == ParsePrefix(Segment(str, 4) \o <<"/">> \o Segment(str, 5)).ok
               allOK   == subOK /\ (NumSegments(str) = 5 => childOK)
           IN  /\ ~allOK => err = InvalidParameter
               /\ err = "nil" =>
                    /\ IsValid(pID.Subnet)
                    /\ NumSegments(str) = 5 => IsValid(pID.ChildSubnet)

C9_Witness ==
    /\ ppc = "parsed" /\ NumSegments(str) = 5 /\ err = InvalidParameter
    /\ ParsePrefix(Segment(str, 2) \o <<"/">> \o Segment(str, 3)).ok
    /\ ~ParsePrefix(Segment(str, 4) \o <<"/">> \o Segment(str, 5)).ok

\* str is the String() of the caller's PoolID pid0
Formatted == ppc \in {"have_str", "parsed", "reformatted"} /\ pid0 # ZeroPoolID

\* PoolIDFromString accepted str
Accepted == ppc \in {"parsed", "reformatted"} /\ err = "nil"

\* the segment count of String() mirrors the presence of p's child
CountMirrorsChild(s, p) ==
    IF p.ChildSubnet = ZeroPrefix THEN NumSegments(s) = 3 ELSE NumSegments(s) = 5

\* the child of the parsed PoolID mirrors the segment count of the input
ChildMirrorsCount(s, p) ==
    /\ NumSegments(s) = 3 => p.ChildSubnet = ZeroPrefix
    /\ NumSegments(s) = 5 => p.ChildSubnet # ZeroPrefix

\* C14 as stated: String() of any PoolID has 3 segments exactly when its
\* ChildSubnet is the zero prefix and 5 otherwise; PoolIDFromString turns an
\* accepted 3-segment input into a PoolID without child and an accepted
\* 5-segment input into one with a non-zero child.
C14_SegmentCountAnyPoolID ==
    /\ Formatted => CountMirrorsChild(str, pid0)
    /\ Accepted => ChildMirrorsCount(str, pID)

\* C14 amended: the same, for String() of a valid PoolID whose address-space
\* name contains no '/'.
C14_SegmentCount ==
    /\ (Formatted /\ ValidPoolID(pid0) /\ SlashPos(pid0.AddressSpace) = {})
          => CountMirrorsChild(str, pid0)
    /\ Accepted => ChildMirrorsCount(str, pID)

C14_Witness ==
    /\ Formatted /\ ValidPoolID(pid0) /\ SlashPos(pid0.AddressSpace) = {}
    /\ pid0.ChildSubnet = ZeroPrefix /\ NumSegments(str) = 3
    /\ Accepted /\ pID.ChildSubnet = ZeroPrefix

\* every address segment of s is the text Addr.String() writes
CanonicalAddrs(s) ==
    \A k \in {2, 4} :
        k <= NumSegments(s)
            => \E e \in AddrTexts : e.canon /\ e.text = Segment(s, k)

\* C15 as stated: for every string s that PoolIDFromString accepts,
\* PoolIDFromString(s).String() = s.
C15_StringInvertsParse ==
    ppc = "reformatted" => restr = str

\* C15 amended: for every accepted string s whose address segments are
\* written in the canonical text form, PoolIDFromString(s).String() = s.
C15_StringInvertsParseOfCanonical ==
    (ppc = "reformatted" /\ CanonicalAddrs(str)) => restr = str

C15_Witness ==
    /\ ppc = "reformatted" /\ CanonicalAddrs(str)
    /\ NumSegments(str) = 5
    /\ restr = str

\* the IPv6 addresses of the model
Ip6Addrs == {Ip6Zero, Ip6One, Ip6High}

\* C16: Is6() is true exactly when the base address of Subnet is an IPv6
\* address, whatever ChildSubnet and AddressSpace are.
C16_Is6FromSubnet ==
    is6.called => (is6.val <=> pid0.Subnet.ip \in Ip6Addrs)

C16_Witness ==
    /\ is6.called /\ is6.val
    /\ pid0.Subnet.ip \in Ip6Addrs
    /\ pid0.ChildSubnet # ZeroPrefix /\ pid0.ChildSubnet.ip \notin Ip6Addrs

\* PoolIDFromString rejected str
Rejected == ppc = "parsed" /\ err = InvalidParameter

\* the prefix netip.ParsePrefix reads from segments k and k+1 of s
SegmentPrefix(s, k) == ParsePrefix(Segment(s, k) \o <<"/">> \o Segment(s, k + 1))

\* C26 as stated: the PoolID returned with an error is the zero value.
C26_ErrorReturnsZeroPoolID ==
    Rejected => pID = ZeroPoolID

\* C26 amended: with an error for the empty string or a wrong segment count
\* the PoolID is the zero value; with an error for an unparsable prefix it
\* keeps the first segment as AddressSpace and, when the child is the one
\* rejected, the parsed Subnet; ChildSubnet is zero in every error return.
C26_ErrorReturnsPartialPoolID ==
    Rejected
        => /\ pID.ChildSubnet = ZeroPrefix
           /\ NumSegments(str) \notin {3, 5} => pID = ZeroPoolID
           /\ NumSegments(str) \in {3, 5}
                => /\ pID.AddressSpace = Segment(str, 1)
                   /\ pID.Subnet = SegmentPrefix(str, 2).prefix
                   /\ NumSegments(str) = 3 => pID.Subnet = ZeroPrefix

C26_Witness ==
    /\ Rejected /\ NumSegments(str) = 5
    /\ pID.AddressSpace # <<>>
    /\ IsValid(pID.Subnet)
    /\ pID.ChildSubnet = ZeroPrefix

\* C29 as stated: a PoolID parsed without error from a 5-segment input has
\* a ChildSubnet of Subnet's address family, contained in Subnet.
C29_ChildInsideSubnet ==
    (Accepted /\ NumSegments(str) = 5)
        => /\ BitLen(pID.ChildSubnet.ip) = BitLen(pID.Subnet.ip)
           /\ Contains(pID.Subnet, pID.ChildSubnet)

\* C29 amended: a PoolID parsed without error from a 5-segment input has a
\* valid Subnet and a valid ChildSubnet, each the prefix its own two
\* segments spell; family and containment are not checked.
C29_BothPrefixesValid ==
    (Accepted /\ NumSegments(str) = 5)
        => /\ IsValid(pID.Subnet) /\ IsValid(pID.ChildSubnet)
           /\ SegmentPrefix(str, 2).ok /\ pID.Subnet = SegmentPrefix(str, 2).prefix
           /\ SegmentPrefix(str, 4).ok /\ pID.ChildSubnet = SegmentPrefix(str, 4).prefix

C29_Witness ==
    /\ Accepted /\ NumSegments(str) = 5
    /\ IsValid(pID.Subnet) /\ IsValid(pID.ChildSubnet)
    /\ BitLen(pID.ChildSubnet.ip) # BitLen(pID.Subnet.ip)

-----------------------------------------------------------------------------
(* Properties of the PoolData queries *)

\* the one bits of a Uint128 as positions 0..127 of the 128-bit number
Bits128(u) == u.Lo \cup {c + 64 : c \in u.Hi}

\* S + 2^e on an unbounded binary number given by the set S of its one bits
RECURSIVE AddPow(_, _)
AddPow(S, e) == IF e \in S THEN AddPow(S \ {e}, e + 1) ELSE S \cup {e}

\* S + T on unbounded binary numbers: every one bit of T is added to S
RECURSIVE AddAll(_, _)
AddAll(S, T) ==
    IF T = {} THEN S
    ELSE LET e == CHOOSE x \in T : TRUE
         IN  AddAll(AddPow(S, e), T \ {e})

\* the exact (unbounded) sum of subnetCapacity over the prefixes cs
RECURSIVE ExactSum(_)
ExactSum(cs) ==
    IF cs = {} THEN {}
    ELSE LET c == CHOOSE x \in cs : TRUE
         IN  AddAll(ExactSum(cs \ {c}), Bits128(subnetCapacity(c)))

\* C2: whenever the cached available range exceeds 2^64 - 1 (its high word
\* is not zero), AvailableAddrs reports exactly the 64-bit maximum.
C2_SaturatesAboveMax ==
    (ret.op = "AvailableAddrs" /\ availableRange.Hi # U64Zero)
        => ret.val.availableRange = MaxUint64

\* C3: subnetCapacity(prefix) is 2^(addressBitLength - prefixBits) for every
\* valid prefix, prefixBits = 0 included (::/0 gives 2^128).
C3_CapacityIsPowerOfTwo ==
    ret.op = "subnetCapacity"
        => Bits128(ret.val) = {BitLen(ret.arg.ip) - ret.arg.bits}

\* C10: capacityRange with a nonempty children set returns the exact sum of
\* subnetCapacity over the children (256 for {10.0.0.0/25, 10.0.1.0/25}).
C10_ChildrenSum ==
    (ret.op = "capacityRange" /\ children # {})
        => /\ ~ret.out.panic
           /\ Bits128(ret.out.val) = ExactSum(children)
           /\ (children = {PrefixFrom(Ip10_0_0_0, 25), PrefixFrom(Ip10_0_1_0, 25)}
                 => ret.out.val = New({8}, U64Zero))

\* the exact (unbounded) number of addresses the prefixes cs span together:
\* the sum of 2^(address bits - prefix bits)
RECURSIVE AddressCount(_)
AddressCount(cs) ==
    IF cs = {} THEN {}
    ELSE LET c == CHOOSE x \in cs : TRUE
         IN  AddPow(AddressCount(cs \ {c}), BitLen(c.ip) - c.bits)

\* C11: for every pool whose children are pairwise disjoint valid prefixes
\* of one family, capacityRange returns normally (no panic) and its value is
\* the number of addresses the children span, neither wrapped nor truncated.
C11_NeverFailsOrWraps ==
    (ret.op = "capacityRange" /\ children # {})
        => /\ ~ret.out.panic
           /\ Bits128(ret.out.val) = AddressCount(children)

\* C12: capacityRange with an empty children set returns subnetCapacity of
\* the prefix the address tracker reports, for every tracked prefix.
C12_NoChildrenIsPoolCapacity ==
    (ret.op = "capacityRange" /\ children = {})
        => ret.out = Returned(subnetCapacity(Pool(addrs)))

C12_Witness ==
    /\ ret.op = "capacityRange" /\ children = {}
    /\ Pool(addrs) = PrefixFrom(Ip6Zero, 64)
    /\ ret.out = Returned(New(U64Zero, U64One))

\* C13: subnetCapacity returns 1 for every host prefix (/32 of IPv4, /128 of
\* IPv6) and 256 for 10.0.0.0/24.
C13_HostAndSlash24 ==
    ret.op = "subnetCapacity"
        => /\ (ret.arg.bits = BitLen(ret.arg.ip) => ret.val = New({0}, U64Zero))
           /\ (ret.arg = PrefixFrom(Ip10_0_0_0, 24) => ret.val = New({8}, U64Zero))

C13_Witness ==
    /\ ret.op = "subnetCapacity"
    /\ ret.arg = PrefixFrom(Ip6One, 128)
    /\ ret.val = New(U64One, U64Zero)

\* C20: the availableSubnet result of AvailableAddrs is exactly the address
\* tracker's Unselected() count, whatever the children and the cached range.
C20_AvailableSubnetIsUnselected ==
    ret.op = "AvailableAddrs"
        => ret.val.availableSubnet = Unselected(addrs)

C20_Witness ==
    /\ ret.op = "AvailableAddrs"
    /\ children # {} /\ availableRange.Hi # U64Zero
    /\ Unselected(addrs) # U64Zero
    /\ ret.val.availableSubnet = Unselected(addrs)
    /\ ret.val.availableRange # ret.val.availableSubnet

\* what the query op returns when it runs alone on the PoolData
SequentialResults(op) ==
    IF op = "capacityRange"
    THEN {[op |-> op, out |-> capacityRange(ThePool, o)] : o \in Orders(children)}
    ELSE IF op = "AvailableAddrs"
    THEN {[op |-> op, val |-> AvailableAddrs(ThePool)]}
    ELSE {[op |-> op, text |-> PoolDataString(ThePool)]}

\* C19: no step of capacityRange, AvailableAddrs or PoolData.String writes
\* a field of the PoolData, and whatever the interleaving of the readers,
\* every query returns what it returns when run alone.
C19_ReadersDoNotInterfere ==
    /\ [](\A r \in Readers :
            readers[r].pc = "done"
                => readers[r].res \in SequentialResults(readers[r].op))
    /\ [][UNCHANGED <<addrs, children, availableRange, autoRelease>>]_vars

C19_Witness ==
    /\ Cardinality(children) = 2
    /\ readers["r1"].op = "capacityRange" /\ readers["r1"].pc = "range"
    /\ Cardinality(readers["r1"].seen) = 1
    /\ readers["r2"].op = "capacityRange" /\ readers["r2"].pc = "done"
    /\ readers["r2"].res.out = Returned(New({8}, U64Zero))

C22_NarrowsToMin ==
    ret.op = "AvailableAddrs"
        => /\ availableRange.Hi = U64Zero
                => ret.val.availableRange = availableRange.Lo
           /\ ret.val.availableRange =
                (IF availableRange.Hi = U64Zero THEN availableRange.Lo ELSE BitPos64)
           /\ \A w \in AvailValues :
                Cmp(w, availableRange) <= 0
                    => ~Less64(ret.val.availableRange,
                               AvailableAddrs([ThePool EXCEPT !.availableRange = w]).availableRange)

\* C28: subnetCapacity of a valid prefix is at least 1, and larger than the
\* capacity of every longer prefix of the same family.
C28_CapacityPositiveMonotone ==
    (ret.op = "subnetCapacity" /\ IsValid(ret.arg))
        => /\ Cmp(ret.val, From64(U64One)) >= 0
           /\ \A sn \in SubnetInputs :
                (BitLen(sn.ip) = BitLen(ret.arg.ip) /\ sn.bits > ret.arg.bits)
                    => Cmp(ret.val, subnetCapacity(sn)) > 0

====
